---- MODULE Spec2Model ----
(***************************************************************************)
(* CleanMate: the file organiser (cleanmate.py) and its cron scheduler     *)
(* (schedule_cleanmate.py).  Python strings are sequences of one-character *)
(* strings, so that lower(), split(), `in` and path joins are computed.    *)
(***************************************************************************)
EXTENDS Integers, Sequences, FiniteSets, TLC

VARIABLES
    call,       \* one application of a pure function: its arguments and result
    config,     \* the configuration dict handed to organize_files
    pending,    \* files os.walk has still to yield, in order
    files,      \* the filesystem: resolved path -> content
    dirs,       \* the filesystem: the directories that exist
    stats,      \* organize_files' stats dict
    pc,         \* organize_files' position
    cur,        \* the locals of the loop body for the file in hand
    entry,      \* stats as they were when the file in hand was discovered
    mainpc,     \* cleanmate.main's position
    cfgfile,    \* the state of the configuration file main is to read
    args,       \* the parsed command line of cleanmate.py
    crontab,    \* the user's crontab: its lines, or absent
    cronout     \* what the last scheduler command did

vars == <<call, config, pending, files, dirs, stats, pc, cur, entry,
          mainpc, cfgfile, args, crontab, cronout>>

(***************************************************************************)
(* Bounds of the model.                                                    *)
(***************************************************************************)
MaxCats == 2        \* categories in an enumerated category table
MaxWords == 2       \* words in an enumerated summary
MaxFiles == 2       \* files os.walk yields in one run
MaxMissing == 2     \* fields a valid configuration file may lack

(***************************************************************************)
(* Python str operations.                                                  *)
(***************************************************************************)
None == [isNone |-> TRUE]
Some(v) == [isNone |-> FALSE, val |-> v]

UpperLetters == <<"A", "B", "C", "D", "E", "F", "G", "H", "I", "J", "K", "L", "M", "N", "O", "P", "Q", "R", "S", "T", "U", "V", "W", "X", "Y", "Z">>
LowerLetters == <<"a", "b", "c", "d", "e", "f", "g", "h", "i", "j", "k", "l", "m", "n", "o", "p", "q", "r", "s", "t", "u", "v", "w", "x", "y", "z">>

\* str.lower() on one character
LowerChar(c) ==
    IF \E i \in 1..Len(UpperLetters) : UpperLetters[i] = c
    THEN LowerLetters[CHOOSE i \in 1..Len(UpperLetters) : UpperLetters[i] = c]
    ELSE c

\* str.lower()
lower(s) == [i \in 1..Len(s) |-> LowerChar(s[i])]

\* `sub in s` on strings
Contains(s, sub) ==
    \E i \in 0..(Len(s) - Len(sub)) : SubSeq(s, i + 1, i + Len(sub)) = sub

\* `x in lst` on a list
InList(x, lst) == \E i \in 1..Len(lst) : lst[i] = x

IsSpace(c) == c \in {" ", "\n", "\t"}

RECURSIVE SplitWs(_, _, _)
SplitWs(s, word, acc) ==
    IF s = <<>> THEN (IF word = <<>> THEN acc ELSE Append(acc, word))
    ELSE IF IsSpace(Head(s))
         THEN SplitWs(Tail(s), <<>>, IF word = <<>> THEN acc ELSE Append(acc, word))
         ELSE SplitWs(Tail(s), Append(word, Head(s)), acc)

\* str.split(): the whitespace-delimited words
split(s) == SplitWs(s, <<>>, <<>>)

RECURSIVE JoinWith(_, _)
\* sep.join(words)
JoinWith(sep, words) ==
    IF words = <<>> THEN <<>>
    ELSE IF Len(words) = 1 THEN words[1]
    ELSE words[1] \o sep \o JoinWith(sep, Tail(words))

\* str.rfind(c), 1-based, 0 when absent
RFind(s, c) ==
    IF \E i \in 1..Len(s) : s[i] = c
    THEN CHOOSE i \in 1..Len(s) : s[i] = c /\ \A j \in (i + 1)..Len(s) : s[j] # c
    ELSE 0

\* Path.name: the last component of a path
PathName(p) == SubSeq(p, RFind(p, "/") + 1, Len(p))

\* Path.suffix: from the last dot of the name, unless it leads or ends the name
suffix(p) ==
    LET name == PathName(p)
        k == RFind(name, ".")
    IN IF 1 < k /\ k < Len(name) THEN SubSeq(name, k, Len(name)) ELSE <<>>

\* Path.stem: the name without its suffix
stem(p) ==
    LET name == PathName(p)
        k == RFind(name, ".")
    IN IF 1 < k /\ k < Len(name) THEN SubSeq(name, 1, k - 1) ELSE name

(***************************************************************************)
(* DEFAULT_CONFIG.                                                         *)
(***************************************************************************)
Cat(n, e) == [name |-> n, extensions |-> e]

\* "file_categories": a dict, iterated in insertion order
DefaultCategories == <<
    Cat(<<"D", "o", "c", "u", "m", "e", "n", "t", "s">>, <<<<".", "p", "d", "f">>, <<".", "d", "o", "c", "x">>, <<".", "d", "o", "c">>, <<".", "t", "x", "t">>, <<".", "r", "t", "f">>, <<".", "o", "d", "t">>>>),
    Cat(<<"I", "m", "a", "g", "e", "s">>, <<<<".", "j", "p", "g">>, <<".", "j", "p", "e", "g">>, <<".", "p", "n", "g">>, <<".", "g", "i", "f">>, <<".", "b", "m", "p">>, <<".", "t", "i", "f", "f">>, <<".", "w", "e", "b", "p">>>>),
    Cat(<<"V", "i", "d", "e", "o", "s">>, <<<<".", "m", "p", "4">>, <<".", "m", "o", "v">>, <<".", "a", "v", "i">>, <<".", "m", "k", "v">>, <<".", "w", "m", "v">>, <<".", "f", "l", "v">>>>),
    Cat(<<"A", "u", "d", "i", "o">>, <<<<".", "m", "p", "3">>, <<".", "w", "a", "v">>, <<".", "a", "a", "c">>, <<".", "f", "l", "a", "c">>, <<".", "o", "g", "g">>>>),
    Cat(<<"C", "o", "d", "e">>, <<<<".", "p", "y">>, <<".", "j", "s">>, <<".", "h", "t", "m", "l">>, <<".", "c", "s", "s">>, <<".", "j", "a", "v", "a">>, <<".", "c", "p", "p">>, <<".", "c">>, <<".", "g", "o">>,
                  <<".", "r", "b">>, <<".", "p", "h", "p">>>>),
    Cat(<<"A", "r", "c", "h", "i", "v", "e", "s">>, <<<<".", "z", "i", "p">>, <<".", "r", "a", "r">>, <<".", "t", "a", "r">>, <<".", "g", "z">>, <<".", "7", "z">>>>),
    Cat(<<"P", "r", "e", "s", "e", "n", "t", "a", "t", "i", "o", "n", "s">>, <<<<".", "p", "p", "t">>, <<".", "p", "p", "t", "x">>, <<".", "k", "e", "y">>>>),
    Cat(<<"S", "p", "r", "e", "a", "d", "s", "h", "e", "e", "t", "s">>, <<<<".", "x", "l", "s">>, <<".", "x", "l", "s", "x">>, <<".", "c", "s", "v">>, <<".", "n", "u", "m", "b", "e", "r", "s">>>>),
    Cat(<<"P", "D", "F", "s">>, <<<<".", "p", "d", "f">>>>) >>

Other == <<"O", "t", "h", "e", "r">>

\* "ignore_patterns": each regex is a literal, anchored or not at either end
Pattern(a, l, e) == [atStart |-> a, lit |-> l, atEnd |-> e]

DefaultIgnorePatterns == <<
    Pattern(TRUE, <<".">>, FALSE),             \* "^\\."
    Pattern(TRUE, <<"~", "$">>, FALSE),            \* "^~\\$"
    Pattern(TRUE, <<"T", "h", "u", "m", "b", "s", ".", "d", "b">>, TRUE),      \* "^Thumbs\\.db$"
    Pattern(TRUE, <<"d", "e", "s", "k", "t", "o", "p", ".", "i", "n", "i">>, TRUE) >>  \* "^desktop\\.ini$"

DefaultSummarizeExtensions == <<<<".", "p", "d", "f">>, <<".", "t", "x", "t">>, <<".", "d", "o", "c", "x">>>>

DefaultMaxFileSizeMb == 10

(***************************************************************************)
(* should_ignore_file.                                                     *)
(***************************************************************************)
\* re.search(pattern, s): the literal occurs in s at a place its anchors allow
re_search(pattern, s) ==
    \E i \in 1..(Len(s) - Len(pattern.lit) + 1) :
        /\ SubSeq(s, i, i + Len(pattern.lit) - 1) = pattern.lit
        /\ pattern.atStart => i = 1
        /\ pattern.atEnd => i + Len(pattern.lit) - 1 = Len(s)

\* re.fullmatch(pattern, s): the whole of s is the literal
re_fullmatch(pattern, s) == s = pattern.lit

RECURSIVE IgnoreScan(_, _, _)
IgnoreScan(filename, ignore_patterns, i) ==
    IF i > Len(ignore_patterns) THEN FALSE
    ELSE IF re_search(ignore_patterns[i], filename) THEN TRUE
    ELSE IgnoreScan(filename, ignore_patterns, i + 1)

\* should_ignore_file with re.fullmatch in place of re.search
should_ignore_file_fullmatch(filename, ignore_patterns) ==
    \E i \in 1..Len(ignore_patterns) : re_fullmatch(ignore_patterns[i], filename)

should_ignore_file(filename, ignore_patterns) ==
    IgnoreScan(filename, ignore_patterns, 1)

(***************************************************************************)
(* get_file_category.                                                      *)
(***************************************************************************)
RECURSIVE CategoryScan(_, _, _)
\* for category, extensions in categories.items(): first hit wins
CategoryScan(extension, categories, i) ==
    IF i > Len(categories) THEN Other
    ELSE IF InList(extension, categories[i].extensions) THEN categories[i].name
    ELSE CategoryScan(extension, categories, i + 1)

\* get_file_category without the lower(): the extension compared as written
get_file_category_nolower(file_path, categories) ==
    CategoryScan(suffix(file_path), categories, 1)

get_file_category(file_path, categories) ==
    CategoryScan(lower(suffix(file_path)), categories, 1)

(***************************************************************************)
(* summarize_file_content.  A file is what the function reads of it: its   *)
(* size in bytes, the text open().read() yields and whether open() works.  *)
(***************************************************************************)
BytesPerMb == 1024 * 1024
ReadChars == 1000
ManyWords == 20

Digits == <<"0", "1", "2", "3", "4", "5", "6", "7", "8", "9">>

RECURSIVE str(_)
\* str(n) of a natural number, as the f-string formats len(words)
str(n) == IF n < 10 THEN <<Digits[n + 1]>> ELSE str(n \div 10) \o <<Digits[(n % 10) + 1]>>

\* f.read(1000)
Read(text, n) == SubSeq(text, 1, IF Len(text) < n THEN Len(text) ELSE n)

TextSummary(text) ==
    LET content == Read(text, ReadChars)
        words == split(content)
    IN IF Len(words) > ManyWords
       THEN <<"T", "h", "i", "s", " ", "d", "o", "c", "u", "m", "e", "n", "t", " ", "c", "o", "n", "t", "a", "i", "n", "s", " ", "t", "e", "x", "t", " ", "a", "b", "o", "u", "t", " ">>
                \o JoinWith(<<" ">>, SubSeq(words, 1, 3))
                \o <<".", ".", ".", " ", "a", "n", "d", " ", "i", "s", " ">> \o str(Len(words)) \o <<" ", "w", "o", "r", "d", "s", " ", "l", "o", "n", "g", ".">>
       ELSE <<"S", "h", "o", "r", "t", " ", "d", "o", "c", "u", "m", "e", "n", "t", " ", "c", "o", "n", "t", "a", "i", "n", "i", "n", "g", ":", " ">> \o content

\* the size cap is read from DEFAULT_CONFIG, not from the run's configuration
summarize_file_content(file_path, file) ==
    LET extension == lower(suffix(file_path))
    IN IF ~InList(extension, <<<<".", "p", "d", "f">>, <<".", "t", "x", "t">>, <<".", "d", "o", "c", "x">>>>) THEN None
       ELSE IF file.size > DefaultMaxFileSizeMb * BytesPerMb THEN None
       ELSE IF extension = <<".", "t", "x", "t">>
            THEN IF file.readable THEN Some(TextSummary(file.text))
                 ELSE Some(<<"T", "h", "i", "s", " ", "i", "s", " ", "a", " ", "t", "e", "x", "t", " ", "d", "o", "c", "u", "m", "e", "n", "t", ".">>)
       ELSE IF extension = <<".", "p", "d", "f">> THEN Some(<<"T", "h", "i", "s", " ", "i", "s", " ", "a", " ", "P", "D", "F", " ", "d", "o", "c", "u", "m", "e", "n", "t", ".">>)
       ELSE Some(<<"T", "h", "i", "s", " ", "i", "s", " ", "a", " ", "W", "o", "r", "d", " ", "d", "o", "c", "u", "m", "e", "n", "t", ".">>)

(***************************************************************************)
(* suggest_folder_name.                                                    *)
(***************************************************************************)
StopWords == <<<<"d", "o", "c", "u", "m", "e", "n", "t">>, <<"c", "o", "n", "t", "a", "i", "n", "s">>, <<"a", "b", "o", "u", "t">>, <<"w", "o", "r", "d", "s">>, <<"l", "o", "n", "g">>, <<"t", "h", "i", "s">>, <<"t", "h", "a", "t">>>>

\* [w for w in words if len(w) > 4 and w.lower() not in [...]]
ImportantWords(words) ==
    SelectSeq(words, LAMBDA w : Len(w) > 4 /\ ~InList(lower(w), StopWords))

ExtensionFolder(extension) ==
    IF extension = <<".", "p", "d", "f">> THEN <<"P", "D", "F", " ", "D", "o", "c", "u", "m", "e", "n", "t", "s">>
    ELSE IF extension = <<".", "d", "o", "c", "x">> THEN <<"W", "o", "r", "d", " ", "D", "o", "c", "u", "m", "e", "n", "t", "s">>
    ELSE IF extension = <<".", "t", "x", "t">> THEN <<"T", "e", "x", "t", " ", "D", "o", "c", "u", "m", "e", "n", "t", "s">>
    ELSE <<"O", "t", "h", "e", "r", " ", "D", "o", "c", "u", "m", "e", "n", "t", "s">>

\* suggest_folder_name with the extension consulted before the summary's "PDF" and "Word"
suggest_folder_name_extfirst(file_path, summary) ==
    IF summary.isNone \/ summary.val = <<>> THEN None
    ELSE IF lower(suffix(file_path)) \in {<<".", "p", "d", "f">>, <<".", "d", "o", "c", "x">>}
         THEN Some(ExtensionFolder(lower(suffix(file_path))))
    ELSE IF Contains(summary.val, <<"P", "D", "F">>) THEN Some(<<"P", "D", "F", " ", "D", "o", "c", "u", "m", "e", "n", "t", "s">>)
    ELSE IF Contains(summary.val, <<"W", "o", "r", "d">>) THEN Some(<<"W", "o", "r", "d", " ", "D", "o", "c", "u", "m", "e", "n", "t", "s">>)
    ELSE IF Contains(lower(summary.val), <<"t", "e", "x", "t">>)
         THEN IF ImportantWords(split(summary.val)) # <<>>
              THEN Some(ImportantWords(split(summary.val))[1])
              ELSE Some(<<"T", "e", "x", "t", " ", "D", "o", "c", "u", "m", "e", "n", "t", "s">>)
    ELSE Some(ExtensionFolder(lower(suffix(file_path))))

suggest_folder_name(file_path, summary) ==
    IF summary.isNone \/ summary.val = <<>> THEN None
    ELSE LET words == split(summary.val)
             extension == lower(suffix(file_path))
         IN IF Contains(summary.val, <<"P", "D", "F">>) THEN Some(<<"P", "D", "F", " ", "D", "o", "c", "u", "m", "e", "n", "t", "s">>)
            ELSE IF Contains(summary.val, <<"W", "o", "r", "d">>) THEN Some(<<"W", "o", "r", "d", " ", "D", "o", "c", "u", "m", "e", "n", "t", "s">>)
            ELSE IF Contains(lower(summary.val), <<"t", "e", "x", "t">>)
                 THEN LET important_words == ImportantWords(words)
                      IN IF important_words # <<>> THEN Some(important_words[1])
                         ELSE Some(<<"T", "e", "x", "t", " ", "D", "o", "c", "u", "m", "e", "n", "t", "s">>)
            ELSE Some(ExtensionFolder(extension))

(***************************************************************************)
(* Paths and the filesystem.                                               *)
(***************************************************************************)
\* os.path.join(a, b): an absolute b discards a
join(a, b) ==
    IF b # <<>> /\ b[1] = "/" THEN b
    ELSE IF a = <<>> \/ a[Len(a)] = "/" THEN a \o b
    ELSE a \o <<"/">> \o b

RECURSIVE SplitOn(_, _, _, _)
\* str.split(c): the pieces between occurrences of c, empty ones kept
SplitOn(s, c, piece, acc) ==
    IF s = <<>> THEN Append(acc, piece)
    ELSE IF Head(s) = c THEN SplitOn(Tail(s), c, <<>>, Append(acc, piece))
    ELSE SplitOn(Tail(s), c, Append(piece, Head(s)), acc)

RECURSIVE Walk(_, _)
\* path resolution: "" and "." stay, ".." goes to the parent, the root is its own
Walk(components, at) ==
    IF components = <<>> THEN at
    ELSE LET c == Head(components)
         IN IF c = <<>> \/ c = <<".">> THEN Walk(Tail(components), at)
            ELSE IF c = <<".", ".">>
                 THEN Walk(Tail(components),
                           IF at = <<>> THEN at ELSE SubSeq(at, 1, Len(at) - 1))
            ELSE Walk(Tail(components), Append(at, c))

\* the directory or file an absolute path string names
Resolve(p) == Walk(SplitOn(p, "/", <<>>, <<>>), <<>>)

\* the directories os.makedirs(p) visits: p and every head of p
MakedirsVisits(p) ==
    LET components == SplitOn(p, "/", <<>>, <<>>)
    IN {Walk(SubSeq(components, 1, k), <<>>) : k \in 1..Len(components)}

(***************************************************************************)
(* Values of the variables a specification does not use.                   *)
(***************************************************************************)
IdleCall == call = [fn |-> "none"]
IdleRun ==
    /\ config = [none |-> TRUE]
    /\ pending = <<>>
    /\ files = <<>>
    /\ dirs = {}
    /\ stats = [none |-> TRUE]
    /\ pc = "idle"
    /\ cur = [none |-> TRUE]
    /\ entry = [none |-> TRUE]
IdleMain == mainpc = "idle" /\ cfgfile = [none |-> TRUE] /\ args = [none |-> TRUE]
IdleCron == crontab = [none |-> TRUE] /\ cronout = "idle"

runVars == <<config, pending, files, dirs, stats, pc, cur, entry>>
mainVars == <<mainpc, cfgfile, args>>
cronVars == <<crontab, cronout>>

(***************************************************************************)
(* get_file_category applied to one path and one category table.           *)
(***************************************************************************)
CatPaths == {<<"/", "a", "/", "r", ".", "p", "d", "f">>, <<"/", "a", "/", "R", ".", "P", "D", "F">>, <<"/", "a", "/", "n", ".", "t", "x", "t">>, <<"/", "a", "/", "p", ".", "J", "p", "e", "g">>, <<"/", "a", "/", "n", "o", "e", "x", "t">>,
             <<"/", "a", "/", ".", "p", "d", "f">>, <<"/", "a", "/", "x", ".", "t", "a", "r", ".", "g", "z">>, <<"/", "a", "/", "e", "n", "d", ".">>, <<"/", "a", ".", "p", "d", "f", "/", "m", ".", "m", "p", "3">>}

CatPool == {Cat(<<"D", "o", "c", "u", "m", "e", "n", "t", "s">>, <<<<".", "p", "d", "f">>, <<".", "t", "x", "t">>>>), Cat(<<"P", "D", "F", "s">>, <<<<".", "p", "d", "f">>>>),
            Cat(<<"I", "m", "a", "g", "e", "s">>, <<<<".", "j", "p", "g">>, <<".", "j", "p", "e", "g">>>>), Cat(<<"C", "a", "p", "s">>, <<<<".", "P", "D", "F">>>>),
            Cat(<<"B", "a", "r", "e">>, <<<<>>>>)}

CatTables ==
    {DefaultCategories} \cup
    {t \in UNION {[1..n -> CatPool] : n \in 0..MaxCats} :
        \A i, j \in 1..Len(t) : t[i].name = t[j].name => i = j}

InitCategory ==
    /\ call \in [fn : {"get_file_category"}, file_path : CatPaths,
                 categories : CatTables, done : {FALSE}, result : {None}]
    /\ IdleRun /\ IdleMain /\ IdleCron

ApplyCategory ==
    /\ call.fn = "get_file_category" /\ ~call.done
    /\ call' = [call EXCEPT !.done = TRUE,
                            !.result = Some(get_file_category(call.file_path, call.categories))]
    /\ UNCHANGED <<runVars, mainVars, cronVars>>

SpecCategory == InitCategory /\ [][ApplyCategory]_vars

(***************************************************************************)
(* suggest_folder_name applied to one path and one summary.                *)
(***************************************************************************)
SuggestPaths == {<<"/", "a", "/", "r", ".", "p", "d", "f">>, <<"/", "a", "/", "R", ".", "P", "D", "F">>, <<"/", "a", "/", "l", ".", "d", "o", "c", "x">>, <<"/", "a", "/", "n", ".", "t", "x", "t">>, <<"/", "a", "/", "p", ".", "j", "p", "g">>}

Vocabulary == {<<"P", "D", "F">>, <<"p", "d", "f">>, <<"W", "o", "r", "d">>, <<"t", "e", "x", "t">>, <<"c", "o", "n", "T", "E", "X", "T">>, <<"D", "o", "c", "u", "m", "e", "n", "t">>, <<"a", "b", "o", "u", "t">>,
               <<"B", "u", "d", "g", "e", "t">>, <<"i", "s">>, <<"l", "o", "n", "g", ".">>}

Summaries ==
    {None, Some(<<"T", "h", "i", "s", " ", "i", "s", " ", "a", " ", "P", "D", "F", " ", "d", "o", "c", "u", "m", "e", "n", "t", ".">>), Some(<<"T", "h", "i", "s", " ", "i", "s", " ", "a", " ", "W", "o", "r", "d", " ", "d", "o", "c", "u", "m", "e", "n", "t", ".">>),
     Some(<<"T", "h", "i", "s", " ", "i", "s", " ", "a", " ", "t", "e", "x", "t", " ", "d", "o", "c", "u", "m", "e", "n", "t", ".">>)} \cup
    {Some(JoinWith(<<" ">>, ws)) : ws \in UNION {[1..n -> Vocabulary] : n \in 0..MaxWords}}

InitSuggest ==
    /\ call \in [fn : {"suggest_folder_name"}, file_path : SuggestPaths,
                 summary : Summaries, done : {FALSE}, result : {None}]
    /\ IdleRun /\ IdleMain /\ IdleCron

ApplySuggest ==
    /\ call.fn = "suggest_folder_name" /\ ~call.done
    /\ call' = [call EXCEPT !.done = TRUE,
                            !.result = suggest_folder_name(call.file_path, call.summary)]
    /\ UNCHANGED <<runVars, mainVars, cronVars>>

SpecSuggest == InitSuggest /\ [][ApplySuggest]_vars

(***************************************************************************)
(* organize_files: one run over the files os.walk yields.                  *)
(***************************************************************************)
Mb(n) == n * BytesPerMb

File(p, n, t, r) == [path |-> p, size |-> n, text |-> t, readable |-> r]

Filler == <<" ", "w", " ", "w", " ", "w", " ", "w", " ", "w", " ", "w", " ", "w", " ", "w", " ", "w", " ", "w", " ", "w", " ", "w", " ", "w", " ", "w", " ", "w", " ", "w", " ", "w", " ", "w", " ", "w", " ", "w">>    \* twenty more words

SourceFiles == {
    File(<<"/", "a", "/", ".", "D", "S", "_", "S", "t", "o", "r", "e">>, 6, <<>>, TRUE),
    File(<<"/", "a", "/", "n", "o", "t", "e", "s", ".", "t", "x", "t">>, 11, <<"h", "e", "l", "l", "o", " ", "w", "o", "r", "l", "d">>, TRUE),
    File(<<"/", "a", "/", "l", "o", "c", "k", "e", "d", ".", "t", "x", "t">>, 9, <<"s", "o", "m", "e", " ", "t", "e", "x", "t">>, FALSE),
    File(<<"/", "a", "/", "p", "h", "o", "t", "o", ".", "j", "p", "g">>, Mb(2), <<>>, TRUE),
    File(<<"/", "a", "/", "b", "i", "g", ".", "p", "d", "f">>, Mb(7), <<>>, TRUE),
    File(<<"/", "a", "/", "h", "u", "g", "e", ".", "P", "D", "F">>, Mb(11), <<>>, TRUE),
    File(<<"/", "b", "/", "n", "o", "t", "e", "s", ".", "t", "x", "t">>, 47, <<".", ".", "/", ".", ".", "/", "x">> \o Filler, TRUE) }

Config(patterns, cap, by_content, rename, sidecar) ==
    [destination_directory |-> <<"/", "d">>,
     file_categories |-> DefaultCategories,
     ignore_patterns |-> patterns,
     summarize_extensions |-> DefaultSummarizeExtensions,
     max_file_size_for_summary_mb |-> cap,
     organize_by_content |-> by_content,
     smart_rename |-> rename,
     create_summary_file |-> sidecar]

\* the default configuration with its switches and ignore patterns varied, and the
\* default configuration with a lower size cap
Configs ==
    {Config(patterns, DefaultMaxFileSizeMb, by_content, rename, sidecar) :
        patterns \in {DefaultIgnorePatterns, <<>>, <<Pattern(FALSE, <<"o", "t", "e", "s">>, FALSE)>>},
        by_content \in BOOLEAN, rename \in BOOLEAN, sidecar \in BOOLEAN} \cup
    {Config(DefaultIgnorePatterns, 5, TRUE, TRUE, TRUE)}

ZeroStats == [total_files_processed |-> 0, files_organized |-> 0, files_summarized |-> 0,
              smart_folders_created |-> 0, errors |-> 0]

\* what a file holds: the bytes of a source file, named by where it came from, or
\* a sidecar's text (its timestamp left out)
Original(f) == [origin |-> f.path]
SidecarText(filename, summary) == [summary_of |-> filename, summary |-> summary]

\* `if x:` on an Optional[str]
Truthy(x) == ~x.isNone /\ x.val # <<>>

Init ==
    /\ config \in Configs
    /\ pending \in {q \in UNION {[1..n -> SourceFiles] : n \in 0..MaxFiles} :
                       \A i, j \in 1..Len(q) : q[i] = q[j] => i = j}
    /\ files = [p \in {Resolve(pending[i].path) : i \in 1..Len(pending)} |->
                   Original(CHOOSE f \in SourceFiles : Resolve(f.path) = p)]
    /\ dirs = {<<>>, Resolve(<<"/", "a">>), Resolve(<<"/", "b">>)}
    /\ stats = ZeroStats
    /\ pc = "start"
    /\ cur = [outcome |-> "none"]
    /\ entry = ZeroStats
    /\ IdleCall /\ IdleMain /\ IdleCron

\* stats = {...}; os.makedirs(dest_dir, exist_ok=True)
Start ==
    /\ pc = "start"
    /\ stats' = ZeroStats
    /\ dirs' = dirs \cup MakedirsVisits(config.destination_directory)
    /\ pc' = "loop"
    /\ UNCHANGED <<call, mainVars, cronVars, config, pending, files, cur, entry>>

\* for filename in files: counted, then skipped when an ignore pattern matches
SkipIgnored ==
    /\ pc = "loop" /\ pending # <<>>
    /\ should_ignore_file(PathName(Head(pending).path), config.ignore_patterns)
    /\ stats' = [stats EXCEPT !.total_files_processed = @ + 1]
    /\ entry' = stats
    /\ cur' = [file |-> Head(pending), outcome |-> "ignored"]
    /\ pending' = Tail(pending)
    /\ UNCHANGED <<call, mainVars, cronVars, config, files, dirs, pc>>

\* for filename in files: counted, and not ignored
Discover ==
    /\ pc = "loop" /\ pending # <<>>
    /\ ~should_ignore_file(PathName(Head(pending).path), config.ignore_patterns)
    /\ stats' = [stats EXCEPT !.total_files_processed = @ + 1]
    /\ entry' = stats
    /\ cur' = [file |-> Head(pending), outcome |-> "processing", category |-> Other,
               target_dir |-> <<>>, summary |-> None, smart_folder |-> None,
               summarize_called |-> FALSE, failed_at |-> "none"]
    /\ pending' = Tail(pending)
    /\ pc' = "categorize"
    /\ UNCHANGED <<call, mainVars, cronVars, config, files, dirs>>

Categorize ==
    /\ pc = "categorize"
    /\ LET category == get_file_category(cur.file.path, config.file_categories)
       IN cur' = [cur EXCEPT !.category = category,
                             !.target_dir = join(config.destination_directory, category)]
    /\ pc' = IF config.organize_by_content
                /\ InList(lower(suffix(cur.file.path)), config.summarize_extensions)
             THEN "summarize" ELSE "makedirs"
    /\ UNCHANGED <<call, mainVars, cronVars, config, pending, files, dirs, stats, entry>>

Summarize ==
    /\ pc = "summarize"
    /\ LET summary == summarize_file_content(cur.file.path, cur.file)
           smart_folder == IF Truthy(summary) /\ config.smart_rename
                           THEN suggest_folder_name(cur.file.path, summary)
                           ELSE None
       IN /\ cur' = [cur EXCEPT
                        !.summary = summary,
                        !.summarize_called = TRUE,
                        !.smart_folder = smart_folder,
                        !.target_dir =
                            IF Truthy(smart_folder)
                            THEN join(join(config.destination_directory, cur.category),
                                      smart_folder.val)
                            ELSE @]
          /\ stats' = [stats EXCEPT
                        !.files_summarized = IF Truthy(summary) THEN @ + 1 ELSE @,
                        !.smart_folders_created = IF Truthy(smart_folder) THEN @ + 1 ELSE @]
    /\ pc' = "makedirs"
    /\ UNCHANGED <<call, mainVars, cronVars, config, pending, files, dirs, entry>>

\* os.makedirs(target_dir, exist_ok=True): no file is in the way
Makedirs ==
    /\ pc = "makedirs"
    /\ MakedirsVisits(cur.target_dir) \cap DOMAIN files = {}
    /\ dirs' = dirs \cup MakedirsVisits(cur.target_dir)
    /\ pc' = "move"
    /\ UNCHANGED <<call, mainVars, cronVars, config, pending, files, stats, cur, entry>>

\* where shutil.move(src, dst) puts the file: into dst when dst is a directory
MoveTarget(src, dst) ==
    IF Resolve(dst) \in dirs THEN Resolve(join(dst, PathName(src))) ELSE Resolve(dst)

\* shutil.move(file_path, target_file); stats["files_organized"] += 1
Move ==
    /\ pc = "move"
    /\ LET src == Resolve(cur.file.path)
           target_file == join(cur.target_dir, PathName(cur.file.path))
           dst == MoveTarget(cur.file.path, target_file)
       IN /\ src \in DOMAIN files
          /\ dst \notin dirs
          /\ Resolve(target_file) \in dirs => dst \notin DOMAIN files
          /\ files' = [p \in (DOMAIN files \ {src}) \cup {dst} |->
                          IF p = dst THEN files[src] ELSE files[p]]
    /\ stats' = [stats EXCEPT !.files_organized = @ + 1]
    /\ pc' = "sidecar"
    /\ UNCHANGED <<call, mainVars, cronVars, config, pending, dirs, cur, entry>>

WantsSidecar == config.create_summary_file /\ Truthy(cur.summary)

\* with open(summary_path, 'w') as f: f.write(...)
WriteSidecar ==
    /\ pc = "sidecar" /\ WantsSidecar
    /\ LET summary_path == Resolve(join(cur.target_dir, stem(cur.file.path) \o <<"_", "s", "u", "m", "m", "a", "r", "y", ".", "t", "x", "t">>))
       IN /\ summary_path \notin dirs
          /\ files' = [p \in DOMAIN files \cup {summary_path} |->
                          IF p = summary_path
                          THEN SidecarText(PathName(cur.file.path), cur.summary.val)
                          ELSE files[p]]
    /\ cur' = [cur EXCEPT !.outcome = "organized"]
    /\ pc' = "loop"
    /\ UNCHANGED <<call, mainVars, cronVars, config, pending, dirs, stats, entry>>

\* no sidecar asked for, or no summary
SkipSidecar ==
    /\ pc = "sidecar" /\ ~WantsSidecar
    /\ cur' = [cur EXCEPT !.outcome = "organized"]
    /\ pc' = "loop"
    /\ UNCHANGED <<call, mainVars, cronVars, config, pending, files, dirs, stats, entry>>

\* the steps of the try block that call the operating system
CanRaise ==
    \/ pc = "summarize" /\ InList(lower(suffix(cur.file.path)), <<<<".", "p", "d", "f">>, <<".", "t", "x", "t">>, <<".", "d", "o", "c", "x">>>>)
    \/ pc = "makedirs"
    \/ pc = "move"
    \/ pc = "sidecar" /\ WantsSidecar

\* except Exception as e: stats["errors"] += 1
Raise ==
    /\ CanRaise
    /\ stats' = [stats EXCEPT !.errors = @ + 1]
    /\ cur' = [cur EXCEPT !.outcome = "errored", !.failed_at = pc]
    /\ pc' = "loop"
    /\ UNCHANGED <<call, mainVars, cronVars, config, pending, files, dirs, entry>>

\* return stats
Return ==
    /\ pc = "loop" /\ pending = <<>>
    /\ pc' = "done"
    /\ UNCHANGED <<call, mainVars, cronVars, config, pending, files, dirs, stats, cur, entry>>

Next ==
    \/ Start \/ SkipIgnored \/ Discover \/ Categorize \/ Summarize \/ Makedirs
    \/ Move \/ WriteSidecar \/ SkipSidecar \/ Raise \/ Return

Spec == Init /\ [][Next]_vars

(***************************************************************************)
(* Claims about the pure functions.                                        *)
(***************************************************************************)
\* the categories of a table that list an extension, by position
Listing(categories, e) ==
    {i \in 1..Len(categories) :
        \E j \in 1..Len(categories[i].extensions) : categories[i].extensions[j] = e}

Least(S) == CHOOSE i \in S : \A j \in S : i <= j

\* C4: get_file_category returns the first category, in the table's order, whose
\* list holds the lowercased extension of the path, "Other" when none does, and so
\* the only category listing it when there is exactly one.
C4_FirstListedCategory ==
    (call.fn = "get_file_category" /\ call.done) =>
        LET hits == Listing(call.categories, lower(suffix(call.file_path)))
        IN /\ hits = {} => call.result = Some(Other)
           /\ hits # {} => call.result = Some(call.categories[Least(hits)].name)
           /\ Cardinality(hits) = 1 =>
                 \A i \in hits : call.result = Some(call.categories[i].name)

\* an uppercase extension listed lowercase by two categories resolved to the first
C4_Witness ==
    /\ call.fn = "get_file_category" /\ call.done
    /\ suffix(call.file_path) # lower(suffix(call.file_path))
    /\ Cardinality(Listing(call.categories, lower(suffix(call.file_path)))) = 2
    /\ call.categories # DefaultCategories
    /\ call.result = Some(call.categories[1].name)

\* C9: under the default table every category is the result for each extension it
\* lists.
C9_DefaultCategoriesAllReachable ==
    (call.fn = "get_file_category" /\ call.done /\ call.categories = DefaultCategories) =>
        \A i \in Listing(DefaultCategories, lower(suffix(call.file_path))) :
            call.result = Some(DefaultCategories[i].name)

\* C5: suggest_folder_name decides in the stated order: no summary, "PDF", "Word",
\* "text" (any case) with the first word longer than 4 characters outside the stop
\* set, then the extension.
C5_DecisionOrder ==
    (call.fn = "suggest_folder_name" /\ call.done) =>
        LET absent == call.summary.isNone \/ call.summary.val = <<>>
            s == call.summary.val
            e == lower(suffix(call.file_path))
            hasPDF == Contains(s, <<"P", "D", "F">>)
            hasWord == Contains(s, <<"W", "o", "r", "d">>)
            hasText == Contains(lower(s), <<"t", "e", "x", "t">>)
            w == split(s)
            good == {i \in 1..Len(w) : Len(w[i]) > 4 /\ ~InList(lower(w[i]), StopWords)}
        IN /\ absent => call.result = None
           /\ (~absent /\ hasPDF) => call.result = Some(<<"P", "D", "F", " ", "D", "o", "c", "u", "m", "e", "n", "t", "s">>)
           /\ (~absent /\ ~hasPDF /\ hasWord) => call.result = Some(<<"W", "o", "r", "d", " ", "D", "o", "c", "u", "m", "e", "n", "t", "s">>)
           /\ (~absent /\ ~hasPDF /\ ~hasWord /\ hasText /\ good # {}) =>
                 call.result = Some(w[Least(good)])
           /\ (~absent /\ ~hasPDF /\ ~hasWord /\ hasText /\ good = {}) =>
                 call.result = Some(<<"T", "e", "x", "t", " ", "D", "o", "c", "u", "m", "e", "n", "t", "s">>)
           /\ (~absent /\ ~hasPDF /\ ~hasWord /\ ~hasText) =>
                 /\ e = <<".", "p", "d", "f">> => call.result = Some(<<"P", "D", "F", " ", "D", "o", "c", "u", "m", "e", "n", "t", "s">>)
                 /\ e = <<".", "d", "o", "c", "x">> => call.result = Some(<<"W", "o", "r", "d", " ", "D", "o", "c", "u", "m", "e", "n", "t", "s">>)
                 /\ e = <<".", "t", "x", "t">> => call.result = Some(<<"T", "e", "x", "t", " ", "D", "o", "c", "u", "m", "e", "n", "t", "s">>)
                 /\ e \notin {<<".", "p", "d", "f">>, <<".", "d", "o", "c", "x">>, <<".", "t", "x", "t">>} =>
                       call.result = Some(<<"O", "t", "h", "e", "r", " ", "D", "o", "c", "u", "m", "e", "n", "t", "s">>)

\* a .pdf whose summary says "Word" and, in any case, "text" went to "Word Documents"
C5_Witness ==
    /\ call.fn = "suggest_folder_name" /\ call.done
    /\ lower(suffix(call.file_path)) = <<".", "p", "d", "f">>
    /\ ~call.summary.isNone
    /\ Contains(call.summary.val, <<"W", "o", "r", "d">>)
    /\ Contains(call.summary.val, <<"c", "o", "n", "T", "E", "X", "T">>)
    /\ call.result = Some(<<"W", "o", "r", "d", " ", "D", "o", "c", "u", "m", "e", "n", "t", "s">>)

(***************************************************************************)
(* Claims about a run of organize_files.                                   *)
(***************************************************************************)
\* C1: at every point of a run files_organized + errors <= total_files_processed
\* and smart_folders_created <= files_summarized.
C1_StatsInvariant ==
    /\ stats.files_organized + stats.errors <= stats.total_files_processed
    /\ stats.smart_folders_created <= stats.files_summarized

\* the file in hand has left the loop body, organized or errored
Settled == pc \in {"loop", "done"} /\ cur.outcome \in {"organized", "errored"}

\* C2: a file that passes every step adds one to files_organized and nothing to
\* errors; a file that fails in any step adds one to errors and nothing to
\* files_organized.
C2_OneCountPerFile ==
    Settled =>
        IF cur.failed_at = "none"
        THEN /\ stats.files_organized = entry.files_organized + 1
             /\ stats.errors = entry.errors
        ELSE /\ stats.errors = entry.errors + 1
             /\ stats.files_organized = entry.files_organized

\* the Summarizer has been called for the file in hand
Summarized ==
    /\ pc \in {"makedirs", "move", "sidecar", "loop", "done"}
    /\ cur.outcome \in {"processing", "organized", "errored"}
    /\ cur.summarize_called

\* C3: a file larger than the cap of the run's configuration gets no summary, is not
\* counted in files_summarized and gets no smart folder.
C3_CapOfTheRunConfiguration ==
    (Summarized /\ cur.file.size > config.max_file_size_for_summary_mb * BytesPerMb) =>
        /\ cur.summary = None
        /\ cur.smart_folder = None
        /\ stats.files_summarized = entry.files_summarized

\* the file in hand has been moved
Moved ==
    /\ pc \in {"sidecar", "loop", "done"}
    /\ cur.outcome \in {"processing", "organized", "errored"}
    /\ cur.failed_at \in {"none", "sidecar"}

\* C10: a moved file's target directory is destination/category or a direct child of
\* it named by the smart folder.
C10_TargetDirectoryInsideCategory ==
    Moved =>
        LET base == Resolve(join(config.destination_directory, cur.category))
            target == Resolve(cur.target_dir)
        IN \/ target = base
           \/ /\ ~cur.smart_folder.isNone
              /\ target = Append(base, cur.smart_folder.val)

\* the paths, other than the one os.walk found it at, where a source file's bytes are
Placed ==
    {p \in DOMAIN files : "origin" \in DOMAIN files[p] /\ Resolve(files[p].origin) # p}

\* C11: at the end of a run every file counted in files_organized is at its target
\* path with its own content, none overwritten by a later move or sidecar:
\* files_organized is the number of source files that were placed.
C11_OrganizedFilesAllPresent ==
    pc = "done" => stats.files_organized = Cardinality(Placed)

\* a file still at the path os.walk found it at, whose name an ignore pattern matches
IgnoredAt(p) ==
    /\ "origin" \in DOMAIN files[p]
    /\ Resolve(files[p].origin) = p
    /\ \E i \in 1..Len(config.ignore_patterns) :
          re_search(config.ignore_patterns[i], PathName(files[p].origin))

\* C6: a discovered file whose name an ignore pattern matches anywhere adds one to
\* total_files_processed and changes nothing else, and no later step touches it; a
\* file no pattern matches (every file, when the list is empty) goes on to be
\* categorized.
C6_IgnoredFileUntouched ==
    [][/\ (pc = "loop" /\ pending # <<>>) =>
            IF \E i \in 1..Len(config.ignore_patterns) :
                  re_search(config.ignore_patterns[i], PathName(Head(pending).path))
            THEN /\ stats' = [stats EXCEPT !.total_files_processed = @ + 1]
                 /\ files' = files /\ dirs' = dirs /\ pc' = "loop"
            ELSE pc' = "categorize"
       /\ \A p \in DOMAIN files :
            IgnoredAt(p) => p \in DOMAIN files' /\ files'[p] = files[p]]_vars

\* after another file was organized, a file matched in the middle of its name was
\* skipped and is where it was
C6_Witness ==
    /\ pc = "loop" /\ cur.outcome = "ignored"
    /\ config.ignore_patterns = <<Pattern(FALSE, <<"o", "t", "e", "s">>, FALSE)>>
    /\ stats = [ZeroStats EXCEPT !.total_files_processed = 2, !.files_organized = 1]
    /\ Resolve(cur.file.path) \in DOMAIN files
    /\ files[Resolve(cur.file.path)] = Original(cur.file)

(***************************************************************************)
(* cleanmate.main: loading the configuration and starting the run.  A      *)
(* configuration dict is the set of its keys, each with where its value    *)
(* came from; the directory of the default configuration file is taken to  *)
(* be writable.                                                            *)
(***************************************************************************)
ConfigKeys == {"source_directories", "destination_directory", "file_categories",
               "ignore_patterns", "summarize_extensions", "max_file_size_for_summary_mb",
               "organize_by_content", "smart_rename", "keep_original_name",
               "create_summary_file"}

DefaultConfigDict == [k \in ConfigKeys |-> "default"]

\* json.load(f) of a valid file: the fields the file holds, and no others
FileConfigDict(fields) == [k \in fields |-> "file"]

CfgFiles ==
    {[state |-> st, fields |-> {}] : st \in {"missing", "unreadable", "invalid_json"}} \cup
    {[state |-> "valid", fields |-> ConfigKeys \ m] :
        m \in {x \in SUBSET ConfigKeys : Cardinality(x) <= MaxMissing}}

InitMain ==
    /\ mainpc = "start"
    /\ cfgfile \in CfgFiles
    /\ args \in [config : BOOLEAN, dry_run : BOOLEAN, dest : BOOLEAN,
                 source : {"none", "exists", "missing"}]
    /\ config = [none |-> TRUE]
    /\ pending \in {<<>>, <<File(<<"/", "a", "/", "n", "o", "t", "e", "s", ".", "t", "x", "t">>, 11, <<"h", "e", "l", "l", "o", " ", "w", "o", "r", "l", "d">>, TRUE)>>}
    /\ stats = ZeroStats
    /\ files = <<>> /\ dirs = {} /\ pc = "idle"
    /\ cur = [none |-> TRUE] /\ entry = [none |-> TRUE]
    /\ IdleCall /\ IdleCron

mainFrame == <<call, cronVars, files, dirs, pc, cur, entry, args>>

\* if args.config: with open(...) as f: config = json.load(f)
LoadGivenConfig ==
    /\ mainpc = "start" /\ args.config
    /\ IF cfgfile.state = "valid"
       THEN mainpc' = "loaded" /\ config' = FileConfigDict(cfgfile.fields)
       ELSE mainpc' = "crashed" /\ config' = config
    /\ UNCHANGED <<mainFrame, cfgfile, pending, stats>>

\* load_config(): the file as it is when it parses
load_config_read ==
    /\ mainpc = "start" /\ ~args.config
    /\ cfgfile.state = "valid"
    /\ config' = FileConfigDict(cfgfile.fields)
    /\ mainpc' = "loaded"
    /\ UNCHANGED <<mainFrame, cfgfile, pending, stats>>

\* load_config(): no file, or an error reading it: the defaults are written and used
load_config_defaults ==
    /\ mainpc = "start" /\ ~args.config
    /\ cfgfile.state \in {"missing", "unreadable", "invalid_json"}
    /\ cfgfile' = [state |-> "valid", fields |-> ConfigKeys]
    /\ config' = DefaultConfigDict
    /\ mainpc' = "loaded"
    /\ UNCHANGED <<mainFrame, pending, stats>>

\* --source names a directory that does not exist: sys.exit(1)
SourceMissing ==
    /\ mainpc = "loaded" /\ args.source = "missing"
    /\ mainpc' = "exit1"
    /\ UNCHANGED <<mainFrame, cfgfile, config, pending, stats>>

\* the --source and --dest overrides, then the dry run or the start of organize_files,
\* which reads config["source_directories"] and config["destination_directory"]
StartRun ==
    /\ mainpc = "loaded" /\ args.source # "missing"
    /\ LET withSource == IF args.source = "exists"
                         THEN [k \in DOMAIN config \cup {"source_directories"} |->
                                  IF k = "source_directories" THEN "cli" ELSE config[k]]
                         ELSE config
           overridden == IF args.dest
                         THEN [k \in DOMAIN withSource \cup {"destination_directory"} |->
                                  IF k = "destination_directory" THEN "cli" ELSE withSource[k]]
                         ELSE withSource
       IN /\ config' = overridden
          /\ mainpc' = IF args.dry_run THEN "dry_run"
                       ELSE IF {"source_directories", "destination_directory"}
                                   \subseteq DOMAIN overridden
                            THEN "processing"
                            ELSE "crashed"
    /\ UNCHANGED <<mainFrame, cfgfile, pending, stats>>

\* the keys the try block reads for a file: the last two only when it summarizes
TryKeys == {{"file_categories", "organize_by_content", "create_summary_file"},
            {"file_categories", "organize_by_content", "create_summary_file",
             "summarize_extensions"},
            {"file_categories", "organize_by_content", "create_summary_file",
             "summarize_extensions", "smart_rename"}}

\* one file of the loop: config["ignore_patterns"] is read outside the try block,
\* the other keys inside it
ProcessFile ==
    /\ mainpc = "processing" /\ pending # <<>>
    /\ pending' = Tail(pending)
    /\ \E keys \in TryKeys :
          IF "ignore_patterns" \notin DOMAIN config
          THEN /\ mainpc' = "crashed"
               /\ stats' = [stats EXCEPT !.total_files_processed = @ + 1]
          ELSE /\ mainpc' = "processing"
               /\ stats' = IF keys \subseteq DOMAIN config
                           THEN [stats EXCEPT !.total_files_processed = @ + 1,
                                              !.files_organized = @ + 1]
                           ELSE [stats EXCEPT !.total_files_processed = @ + 1,
                                              !.errors = @ + 1]
    /\ UNCHANGED <<mainFrame, cfgfile, config>>

\* return stats; create_report(stats, config)
Report ==
    /\ mainpc = "processing" /\ pending = <<>>
    /\ mainpc' = "completed"
    /\ UNCHANGED <<mainFrame, cfgfile, config, pending, stats>>

NextMain ==
    \/ LoadGivenConfig \/ load_config_read \/ load_config_defaults \/ SourceMissing
    \/ StartRun \/ ProcessFile \/ Report

SpecMain == InitMain /\ [][NextMain]_vars

\* C7: whatever the state of the configuration file, at the default path or given
\* with --config, the run does not crash: the configuration it runs with has every
\* field, from the file or from the defaults.
C7_ConfigurationNeverCrashesTheRun ==
    /\ mainpc # "crashed"
    /\ mainpc \in {"loaded", "processing", "completed"} => DOMAIN config = ConfigKeys

(***************************************************************************)
(* schedule_cleanmate.py: the crontab is its text, or absent.              *)
(***************************************************************************)
ScriptPath == <<"/", "s", "/", "c", "l", "e", "a", "n", "m", "a", "t", "e", ".", "p", "y">>

RECURSIVE lstrip(_)
lstrip(s) == IF s # <<>> /\ IsSpace(Head(s)) THEN lstrip(Tail(s)) ELSE s

RECURSIVE rstrip(_)
rstrip(s) ==
    IF s # <<>> /\ IsSpace(s[Len(s)]) THEN rstrip(SubSeq(s, 1, Len(s) - 1)) ELSE s

\* str.strip()
strip(s) == rstrip(lstrip(s))

\* the cron expression of a frequency and an "HH:MM" time
CronExpr(frequency, hour, minute) ==
    IF frequency = "daily" THEN minute \o <<" ">> \o hour \o <<" ", "*", " ", "*", " ", "*">>
    ELSE IF frequency = "weekly" THEN minute \o <<" ">> \o hour \o <<" ", "*", " ", "*", " ", "0">>
    ELSE minute \o <<" ">> \o hour \o <<" ", "1", " ", "*", " ", "*">>

CronJob(frequency, time) ==
    LET parts == SplitOn(time, ":", <<>>, <<>>)
    IN CronExpr(frequency, parts[1], parts[2]) \o <<" ">> \o ScriptPath

\* subprocess.run(["crontab", "-l"]).stdout, "" when there is no crontab
Listed == IF crontab.isNone THEN <<>> ELSE crontab.val

\* setup_cron_job without its check for an existing schedule
AlreadyScheduledNever(existing_crontab) == FALSE

\* if script_path in existing_crontab
AlreadyScheduled(existing_crontab) == Contains(existing_crontab, ScriptPath)

\* [line for line in existing_crontab.split("\n") if script_path not in line]
WithoutCleanMate(existing_crontab) ==
    JoinWith(<<"\n">>, SelectSeq(SplitOn(existing_crontab, "\n", <<>>, <<>>),
                                 LAMBDA line : ~Contains(line, ScriptPath)))

Frequencies == {"daily", "weekly", "monthly"}
Times == {<<"2", "0", ":", "0", "0">>, <<"8", ":", "3", "0">>, <<"0", "6", ":", "1", "5">>, <<"2", "0", "0", "0">>}

InitialCrontabs ==
    {None, Some(<<>>),
     Some(<<"5", " ", "4", " ", "*", " ", "*", " ", "*", " ", "/", "b", "/", "b", "a", "c", "k", "u", "p">> \o <<"\n">>),
     Some(<<"0", " ", "2", "0", " ", "*", " ", "*", " ", "*", " ", "/", "s", "/", "c", "l", "e", "a", "n", "m", "a", "t", "e", ".", "p", "y">> \o <<"\n">>),
     Some(<<"5", " ", "4", " ", "*", " ", "*", " ", "*", " ", "/", "b", "/", "b", "a", "c", "k", "u", "p">> \o <<"\n">> \o <<"0", " ", "9", " ", "1", " ", "*", " ", "*", " ", "/", "s", "/", "c", "l", "e", "a", "n", "m", "a", "t", "e", ".", "p", "y">> \o <<"\n">>),
     Some(<<"#", " ", "/", "s", "/", "c", "l", "e", "a", "n", "m", "a", "t", "e", ".", "p", "y">> \o <<"\n">> \o <<"5", " ", "4", " ", "*", " ", "*", " ", "*", " ", "/", "b", "/", "b", "a", "c", "k", "u", "p">>),
     Some(<<"0", " ", "1", " ", "*", " ", "*", " ", "*", " ", "/", "s", "/", "c", "l", "e", "a", "n", "m", "a", "t", "e", ".", "p", "y", ".", "b", "a", "k">> \o <<"\n">>),
     Some(<<"\n">> \o <<"@", "d", "a", "i", "l", "y", " ", "/", "b", "/", "s", "y", "n", "c">> \o <<"\n", "\n">>)}

InitCron ==
    /\ crontab \in InitialCrontabs
    /\ cronout = "none"
    /\ IdleCall /\ IdleRun /\ IdleMain

cronFrame == <<call, runVars, mainVars>>

\* hour, minute = time.split(":") with no colon, or more than one: ValueError
AddCrashes ==
    /\ \E time \in Times : Len(SplitOn(time, ":", <<>>, <<>>)) # 2
    /\ cronout' = "crashed"
    /\ UNCHANGED <<cronFrame, crontab>>

\* "CleanMate is already scheduled. Remove existing schedule first."; sys.exit(1)
AddRefused ==
    /\ AlreadyScheduled(Listed)
    /\ cronout' = "refused"
    /\ UNCHANGED <<cronFrame, crontab>>

\* the new line is appended and the crontab installed
AddScheduled ==
    /\ ~AlreadyScheduled(Listed)
    /\ \E frequency \in Frequencies, time \in Times :
          /\ Len(SplitOn(time, ":", <<>>, <<>>)) = 2
          /\ crontab' = Some(strip(Listed) \o <<"\n">> \o CronJob(frequency, time)
                                \o <<"\n">>)
    /\ cronout' = "scheduled"
    /\ UNCHANGED cronFrame

\* subprocess.run(["crontab", temp_file], check=True) raises: sys.exit(1)
AddInstallFails ==
    /\ ~AlreadyScheduled(Listed)
    /\ cronout' = "schedule_failed"
    /\ UNCHANGED <<cronFrame, crontab>>

\* "No crontab found."
RemoveNoCrontab ==
    /\ crontab.isNone
    /\ cronout' = "no_crontab"
    /\ UNCHANGED <<cronFrame, crontab>>

\* the lines without the script path are installed
RemoveInstalled ==
    /\ ~crontab.isNone
    /\ crontab' = Some(WithoutCleanMate(crontab.val))
    /\ cronout' = "removed"
    /\ UNCHANGED cronFrame

\* "Failed to update crontab"
RemoveInstallFails ==
    /\ ~crontab.isNone
    /\ cronout' = "remove_failed"
    /\ UNCHANGED <<cronFrame, crontab>>

NextCron ==
    \/ AddCrashes \/ AddRefused \/ AddScheduled \/ AddInstallFails
    \/ RemoveNoCrontab \/ RemoveInstalled \/ RemoveInstallFails

SpecCron == InitCron /\ [][NextCron]_vars

\* the lines of the crontab that contain the script path
PathLines(ct) ==
    IF ct.isNone THEN {}
    ELSE LET lines == SplitOn(ct.val, "\n", <<>>, <<>>)
         IN {i \in 1..Len(lines) : Contains(lines[i], ScriptPath)}

AddOutcomes == {"crashed", "refused", "scheduled", "schedule_failed"}
RemoveOutcomes == {"no_crontab", "removed", "remove_failed"}

\* C8 as stated: at most one line holds the path, an add on a crontab that holds it is
\* refused and changes nothing, and every remove leaves no line that holds it.
C8_EveryRemoveLeavesNoLine ==
    [][/\ Cardinality(PathLines(crontab')) <= 1
       /\ (cronout' \in AddOutcomes /\ PathLines(crontab) # {}) =>
             cronout' \in {"refused", "crashed"} /\ crontab' = crontab
       /\ cronout' \in RemoveOutcomes => PathLines(crontab') = {}]_vars

\* C8 amended: at most one line holds the path, an add on a crontab that holds it is
\* refused and changes nothing, a remove that installs the filtered crontab leaves no
\* line that holds it, and a remove that fails leaves the crontab as it was.
C8_AtMostOneScheduledLine ==
    /\ [](Cardinality(PathLines(crontab)) <= 1)
    /\ [][/\ (cronout' \in AddOutcomes /\ PathLines(crontab) # {}) =>
                cronout' \in {"refused", "crashed"} /\ crontab' = crontab
          /\ cronout' = "removed" => PathLines(crontab') = {}
          /\ cronout' \in {"no_crontab", "remove_failed"} => crontab' = crontab]_vars

\* a remove took the CleanMate line out and kept the other one
C8_Witness ==
    /\ cronout = "removed"
    /\ ~crontab.isNone
    /\ PathLines(crontab) = {}
    /\ Contains(crontab.val, <<"/", "b", "/", "b", "a", "c", "k", "u", "p">>)

====
